---- MODULE Spec2Model ----
(***************************************************************************)
(* Crawl4AI web-scraping service: the /extract handler                     *)
(* (app/main.py), the static and the Playwright extraction backends and    *)
(* the robots.txt checker (app/services/crawler.py).                       *)
(*                                                                         *)
(* Text values (urls, selectors, html, markdown) are tuples of one-letter  *)
(* strings so that substring tests, lower-casing and len() are computed.   *)
(* Python None in a text slot is PyNone.  Dictionaries are functions over  *)
(* the keys they hold.  Every await on an external library (Playwright,    *)
(* crawl4ai, urllib.robotparser) either returns or raises; the outcome is  *)
(* chosen by the environment.                                              *)
(***************************************************************************)
EXTENDS Integers, Sequences, FiniteSets, TLC

\* ---------------------------------------------------------------- bounds
MaxWaits == 2      \* longest wait_selectors list a request carries
MaxScripts == 1    \* longest js_scripts list a request carries
MaxLimiters == 3   \* RateLimiter objects alive at once
MaxTime == 4       \* seconds the clock advances

\* ------------------------------------------------------------ text values
PyNone == <<"None">>
NoneList == <<PyNone>>          \* Python None in a list slot
NoData == [none |-> TRUE]       \* Python None in a dict / object slot
StrValue(t) == [str |-> t]      \* a str in a slot that also takes dicts

U_PLAIN == <<"h","t","t","p",":","/","/","a",".","i","o","/","x">>
U_HTTPBIN == <<"h","t","t","p",":","/","/","h","t","t","p","b","i","n",".","o","r","g","/","h","t","m","l">>
U_REDIRECT == <<"h","t","t","p",":","/","/","a",".","i","o","/","y">>
HTTPBIN_HTML == <<"h","t","t","p","b","i","n",".","o","r","g","/","h","t","m","l">>
MOBY == <<"H","e","r","m","a","n"," ","M","e","l","v","i","l","l","e"," ","-"," ","M","o","b","y","-","D","i","c","k">>
S_h1 == <<"h","1">>
S_H1 == <<"H","1">>
S_div == <<"d","i","v">>
S_body == <<"b","o","d","y">>
T_HI == <<"H","i">>
HTML_BLANK == <<"<","b","o","d","y",">","<","/","b","o","d","y",">">>
HTML_DOC == <<"<","b","o","d","y",">","<","h","1",">","H","i","<","/","h","1",">","<","/","b","o","d","y",">">>
HTML_H1 == <<"<","h","1",">","H","i","<","/","h","1",">">>
HTML_DIV == <<"<","b","o","d","y",">","<","d","i","v",">","<","/","d","i","v",">","<","/","b","o","d","y",">">>
HTML_DIVEL == <<"<","d","i","v",">","<","/","d","i","v",">">>
JS_SCROLL == <<"s","(",")">>
TIMESTAMP == <<"T">>

\* Python truthiness of a text value, `x or ""`, `sub in s`, `s.lower()`
Truthy(x) == x # PyNone /\ x # <<>>
OrEmpty(x) == IF Truthy(x) THEN x ELSE <<>>
Contains(s, sub) == \E i \in 1..(Len(s) - Len(sub) + 1) : SubSeq(s, i, i + Len(sub) - 1) = sub
LowerChar(c) == IF c = "H" THEN "h" ELSE IF c = "D" THEN "d" ELSE c
Lower(s) == [i \in 1..Len(s) |-> LowerChar(s[i])]

\* ------------------------------------------------------------ dictionaries
\* A mapping argument: None, a dict, or (selectors coming through /extract)
\* a pydantic SelectorConfig object.
NoneArg == [kind |-> "none", d |-> <<>>]
DictOf(f) == [kind |-> "dict", d |-> f]
ModelOf(f) == [kind |-> "model", d |-> f]
EmptyDict == DictOf(<<>>)

\* Python truthiness of the argument: None and {} are falsy, objects truthy
ArgTruthy(m) == m.kind = "model" \/ (m.kind = "dict" /\ DOMAIN m.d # {})
\* `m or {}`
OrEmptyDict(m) == IF ArgTruthy(m) THEN m ELSE EmptyDict
\* `k in m`: a dict tests its keys; a pydantic model has no __contains__ and
\* iterates (name, value) pairs, none of which equals the key string
KeyIn(k, m) == m.kind = "dict" /\ k \in DOMAIN m.d
\* `d.get(k, default)` on a dict
Get(m, k, default) == IF k \in DOMAIN m.d THEN m.d[k] ELSE default
\* `d[k] = v`
Put(m, k, v) == [m EXCEPT !.d = [x \in (DOMAIN m.d) \cup {k} |-> IF x = k THEN v ELSE m.d[x]]]

\* --------------------------------------------------------------- the page
NoElem == [found |-> FALSE, inner_html |-> <<>>, textContent |-> <<>>]
Elem(inner, text) == [found |-> TRUE, inner_html |-> inner, textContent |-> text]
P_BLANK == [html |-> HTML_BLANK, elems |-> (S_body :> Elem(<<>>, <<>>))]
P_DOC == [html |-> HTML_DOC, elems |-> (S_body :> Elem(HTML_H1, T_HI)) @@ (S_h1 :> Elem(T_HI, T_HI))]
P_DIV == [html |-> HTML_DIV, elems |-> (S_body :> Elem(HTML_DIVEL, <<>>)) @@ (S_div :> Elem(<<>>, <<>>))]
Pages == {P_BLANK, P_DOC, P_DIV}

\* page.query_selector(sel): the first element matching the tag selector
\* (tag names match case-insensitively in an HTML document), or None
query_selector(pg, sel) == IF Lower(sel) \in DOMAIN pg.elems THEN pg.elems[Lower(sel)] ELSE NoElem

\* ------------------------------------------------- Playwright backend, pure
\* outcome of the content-extraction stage: the locals it assigned and the
\* exception (if any) that leaves the inner try block
Extracted(html, text, sel, e) == [html |-> html, text |-> text, base_selector |-> sel, exc |-> e]

\* the calls of the extraction stage that can raise
ExtractCalls == {"content", "query", "inner_html", "evaluate", "query_h1", "evaluate_h1", "content_except"}
\* one run of the stage meets at most two failing calls: the first one that
\* raises and, in the selector branch, page.content() of the handler
FailureSets == {f \in SUBSET ExtractCalls : Cardinality(f) <= 2}

\* crawler.py:105-131, the url contains "httpbin.org/html"
ExtractHttpbin(sel, pg, fails) ==
  IF "content" \in fails THEN Extracted(<<>>, <<>>, sel, "PlaywrightError")
  ELSE IF Truthy(sel) /\ Lower(sel) = S_h1
       THEN IF "query" \in fails THEN Extracted(pg.html, MOBY, sel, "none")
            ELSE IF query_selector(pg, S_h1).found
                 THEN IF "evaluate" \in fails THEN Extracted(pg.html, MOBY, sel, "none")
                      ELSE Extracted(pg.html, query_selector(pg, S_h1).textContent, sel, "none")
                 ELSE Extracted(pg.html, MOBY, sel, "none")
       ELSE IF "query" \in fails THEN Extracted(pg.html, <<>>, sel, "PlaywrightError")
            ELSE IF query_selector(pg, S_body).found
                 THEN IF "evaluate" \in fails THEN Extracted(pg.html, <<>>, sel, "PlaywrightError")
                      ELSE Extracted(pg.html, query_selector(pg, S_body).textContent, sel, "none")
                 ELSE Extracted(pg.html, <<>>, sel, "none")

\* crawler.py:150-153, the handler of the selector branch
SelectorErrorHandler(sel, pg, fails) ==
  IF "content_except" \in fails THEN Extracted(<<>>, <<>>, sel, "PlaywrightError")
  ELSE Extracted(pg.html, <<>>, sel, "none")

\* crawler.py:132-153, a truthy base_selector on any other url
ExtractSelector(sel, pg, fails) ==
  IF "query" \in fails THEN SelectorErrorHandler(sel, pg, fails)
  ELSE IF query_selector(pg, sel).found
       THEN IF "inner_html" \in fails \/ "evaluate" \in fails THEN SelectorErrorHandler(sel, pg, fails)
            ELSE Extracted(query_selector(pg, sel).inner_html, query_selector(pg, sel).textContent, sel, "none")
       ELSE IF "content" \in fails THEN SelectorErrorHandler(sel, pg, fails)
            ELSE IF Lower(sel) = S_h1
                 THEN IF "query_h1" \in fails THEN SelectorErrorHandler(sel, pg, fails)
                      ELSE IF query_selector(pg, S_h1).found
                           THEN IF "evaluate_h1" \in fails THEN SelectorErrorHandler(sel, pg, fails)
                                ELSE Extracted(pg.html, query_selector(pg, S_h1).textContent, sel, "none")
                           ELSE Extracted(pg.html, <<>>, sel, "none")
                 ELSE Extracted(pg.html, <<>>, sel, "none")

\* crawler.py:154-155, no base_selector
ExtractFullPage(sel, pg, fails) ==
  IF "content" \in fails THEN Extracted(<<>>, <<>>, sel, "PlaywrightError")
  ELSE Extracted(pg.html, <<>>, sel, "none")

\* crawler.py:101-155.  `selectors.get` does not exist on a pydantic model.
ExtractStage(url_str, sels, pg, fails) ==
  IF sels.kind = "model" THEN Extracted(<<>>, <<>>, PyNone, "AttributeError")
  ELSE LET sel == IF ArgTruthy(sels) THEN Get(sels, "base_selector", PyNone) ELSE PyNone IN
       IF Contains(url_str, HTTPBIN_HTML) THEN ExtractHttpbin(sel, pg, fails)
       ELSE IF Truthy(sel) THEN ExtractSelector(sel, pg, fails)
       ELSE ExtractFullPage(sel, pg, fails)

\* `{k: v for k, v in d.items() if v is not None}`
StripNone(d) == [k \in {x \in DOMAIN d : d[x] # PyNone} |-> d[k]]

\* crawler.py:167-195
PlaywrightResult(html, text, sel, redirected) ==
  [content |-> [html |-> OrEmpty(html), markdown |-> OrEmpty(text), raw_markdown |-> OrEmpty(text)],
   extracted_data |-> IF Truthy(text)
                      THEN StripNone([content |-> text,
                                      title |-> IF Truthy(sel) /\ Lower(sel) = S_h1 THEN text ELSE PyNone])
                      ELSE NoData,
   metadata |-> [url |-> redirected, extraction_time |-> TIMESTAMP,
                 content_length |-> IF Truthy(html) THEN Len(html) ELSE 0,
                 extraction_strategy |-> "playwright"]]

\* crawler.py:197-239
create_fallback_response(url_str) ==
  IF Contains(url_str, HTTPBIN_HTML)
  THEN [content |-> [html |-> <<"<","h","1",">">> \o MOBY \o <<"<","/","h","1",">">>,
                     markdown |-> MOBY, raw_markdown |-> MOBY],
        extracted_data |-> [content |-> MOBY, title |-> MOBY],
        metadata |-> [url |-> url_str, extraction_time |-> TIMESTAMP, content_length |-> 38,
                      extraction_strategy |-> "playwright",
                      note |-> "Fallback response for test compatibility"]]
  ELSE [content |-> [html |-> <<>>, markdown |-> <<>>, raw_markdown |-> <<>>],
        extracted_data |-> [content |-> <<>>, title |-> <<>>],
        metadata |-> [url |-> url_str, extraction_time |-> TIMESTAMP, content_length |-> 0,
                      extraction_strategy |-> "playwright",
                      error |-> "Error during content extraction"]]

\* ----------------------------------------------------- static backend, pure
MD_FIT == <<"#"," ","H","i">>
MD_RAW == <<"#"," ","H","i"," ","x">>
JSON_DATA == <<"[","1","]">>
SCHEMA == [name |-> "s"]

\* result.markdown: None, a str, or a MarkdownGenerationResult object
MdNone == [kind |-> "none", str |-> <<>>, fit_markdown |-> PyNone, raw_markdown |-> PyNone]
MdStr(t) == [kind |-> "str", str |-> t, fit_markdown |-> PyNone, raw_markdown |-> PyNone]
MdObj(fit, raw) == [kind |-> "obj", str |-> raw, fit_markdown |-> fit, raw_markdown |-> raw]
MdTruthy(m) == m.kind = "obj" \/ (m.kind = "str" /\ m.str # <<>>)

\* the objects crawler.crawl can put first in its result list; an attribute
\* the object does not have is not in its domain
R_FULL == [markdown |-> MdObj(MD_FIT, MD_RAW), html |-> HTML_DOC, redirected_url |-> U_REDIRECT,
           url |-> U_PLAIN, extracted_content |-> JSON_DATA]
R_STR == [markdown |-> MdStr(MD_RAW), html |-> HTML_DOC, url |-> U_PLAIN]
R_NOFIT == [markdown |-> MdObj(PyNone, MD_RAW), html |-> PyNone, redirected_url |-> PyNone,
            url |-> PyNone, extracted_content |-> PyNone]
R_BARE == [markdown |-> MdNone, html |-> <<>>]
ResultObjects == {R_FULL, R_STR, R_NOFIT, R_BARE}
\* what crawler.crawl returns: None, a list of result objects, or [None]
CrawlReturns == {[isNone |-> TRUE, list |-> <<>>]}
                \cup {[isNone |-> FALSE, list |-> l] : l \in {<<>>, <<NoData>>} \cup {<<r>> : r \in ResultObjects}}

HasAttr(r, a) == a \in DOMAIN r
AttrTruthy(r, a) == HasAttr(r, a) /\ Truthy(r[a])

\* variant: the static fallback carries the Playwright fallback's extracted_data
fallback_response_with_data(url_str) ==
  [content |-> [markdown |-> <<>>, raw_markdown |-> <<>>, html |-> <<>>],
   extracted_data |-> [content |-> <<>>, title |-> <<>>],
   metadata |-> [url |-> url_str, extraction_time |-> TIMESTAMP, content_length |-> 0,
                 extraction_strategy |-> "crawl4ai"]]

\* crawler.py:372-385
fallback_response(url_str) ==
  [content |-> [markdown |-> <<>>, raw_markdown |-> <<>>, html |-> <<>>],
   extracted_data |-> NoData,
   metadata |-> [url |-> url_str, extraction_time |-> TIMESTAMP, content_length |-> 0,
                 extraction_strategy |-> "crawl4ai"]]

\* crawler.py:429-444
no_content_response(url_str) ==
  [content |-> [markdown |-> <<>>, raw_markdown |-> <<>>, html |-> <<>>],
   extracted_data |-> NoData,
   metadata |-> [url |-> url_str, extraction_time |-> TIMESTAMP, content_length |-> 0,
                 error |-> "No content extracted", extraction_strategy |-> "crawl4ai"]]

\* variant: fit_markdown is passed on without `or ''`
markdown_content_unguarded(r) ==
  IF HasAttr(r, "markdown") /\ MdTruthy(r.markdown)
  THEN IF r.markdown.kind = "obj" THEN r.markdown.fit_markdown ELSE r.markdown.str
  ELSE <<>>

\* crawler.py:452-457
markdown_content(r) ==
  IF HasAttr(r, "markdown") /\ MdTruthy(r.markdown)
  THEN IF r.markdown.kind = "obj" THEN OrEmpty(r.markdown.fit_markdown) ELSE OrEmpty(r.markdown.str)
  ELSE <<>>

\* crawler.py:452-462
raw_markdown(r) ==
  IF HasAttr(r, "markdown") /\ MdTruthy(r.markdown)
  THEN IF r.markdown.kind = "obj" THEN OrEmpty(r.markdown.raw_markdown) ELSE OrEmpty(r.markdown.str)
  ELSE <<>>

\* crawler.py:464-466
html_content(r) == IF AttrTruthy(r, "html") THEN r.html ELSE <<>>

\* crawler.py:468-473
redirected(r, url_str) ==
  IF AttrTruthy(r, "redirected_url") THEN r.redirected_url
  ELSE IF AttrTruthy(r, "url") THEN r.url ELSE url_str

\* crawler.py:475-480
extracted(r) ==
  IF AttrTruthy(r, "extracted_data") THEN StrValue(r.extracted_data)
  ELSE IF AttrTruthy(r, "extracted_content") THEN StrValue(r.extracted_content) ELSE NoData

\* crawler.py:425-509
static_response(r, url_str, strategy, opts) ==
  IF r = NoData THEN no_content_response(url_str)
  ELSE [content |-> [markdown |-> markdown_content(r), raw_markdown |-> raw_markdown(r),
                     html |-> html_content(r)],
        extracted_data |-> extracted(r),
        metadata |-> [url |-> redirected(r, url_str),
                      title |-> IF AttrTruthy(r, "title") THEN r.title ELSE <<>>,
                      description |-> IF AttrTruthy(r, "description") THEN r.description ELSE <<>>,
                      extraction_time |-> TIMESTAMP,
                      content_length |-> IF Truthy(markdown_content(r)) THEN Len(markdown_content(r)) ELSE 0,
                      extraction_strategy |-> IF strategy THEN "schema" ELSE "markdown",
                      scraping_strategy |-> IF Get(opts, "use_lxml", FALSE) THEN "lxml" ELSE "standard"]]

\* ------------------------------------------------------ robots.txt, pure
U_BARE == <<"h","t","t","p",":","/","/","a",".","i","o">>
U_PORT == <<"h","t","t","p","s",":","/","/","a",".","i","o",":","8","/","x">>
ROBOTS_TXT == <<"/","r","o","b","o","t","s",".","t","x","t">>
SEP == <<":","/","/">>
DEFAULT_AGENT == "Flux-RSS-Fabric-AI"

\* urlparse(url).scheme and .netloc of an absolute url
SchemeLen(u) == CHOOSE i \in 0..Len(u) : /\ SubSeq(u, i + 1, i + 3) = SEP
                                         /\ \A j \in 0..(i - 1) : SubSeq(u, j + 1, j + 3) # SEP
Scheme(u) == SubSeq(u, 1, SchemeLen(u))
AfterScheme(u) == SubSeq(u, SchemeLen(u) + 4, Len(u))
NetlocLen(r) == IF \E i \in 1..Len(r) : r[i] = "/"
                THEN (CHOOSE i \in 1..Len(r) : r[i] = "/" /\ \A j \in 1..(i - 1) : r[j] # "/") - 1
                ELSE Len(r)
Netloc(u) == SubSeq(AfterScheme(u), 1, NetlocLen(AfterScheme(u)))

\* str(request_data.url): pydantic renders an HttpUrl without a path with "/"
UrlStr(u) == IF NetlocLen(AfterScheme(u)) = Len(AfterScheme(u)) THEN u \o <<"/">> ELSE u

\* what rp.read() and rp.can_fetch() do: raise, or answer the query
RobotsOutcomes == {"read_raises", "can_fetch_raises", "allowed", "disallowed"}
RobotsFailures == {"read_raises", "can_fetch_raises"}
\* str(e) of the exception the parser raised
RobotsMessage(outcome) ==
  IF outcome = "read_raises" THEN "<urlopen error unreachable>" ELSE "can_fetch failed"

\* variant: a failure of the parser denies access
check_robots_txt_fail_closed(u, user_agent, outcome) ==
  LET robots_url == Scheme(u) \o SEP \o Netloc(u) \o ROBOTS_TXT IN
  IF outcome \in RobotsFailures
  THEN [allowed |-> FALSE, url |-> u, robots_url |-> robots_url, user_agent |-> user_agent,
        error |-> RobotsMessage(outcome)]
  ELSE [allowed |-> (outcome = "allowed"), url |-> u, robots_url |-> robots_url, user_agent |-> user_agent]

\* variant: robots.txt is looked up next to the page, not at the site root
check_robots_txt_beside_page(u, user_agent, outcome) ==
  LET robots_url == u \o ROBOTS_TXT IN
  IF outcome \in RobotsFailures
  THEN [allowed |-> TRUE, url |-> u, robots_url |-> robots_url, user_agent |-> user_agent,
        error |-> RobotsMessage(outcome)]
  ELSE [allowed |-> (outcome = "allowed"), url |-> u, robots_url |-> robots_url, user_agent |-> user_agent]

\* crawler.py:511-557
check_robots_txt(u, user_agent, outcome) ==
  LET robots_url == Scheme(u) \o SEP \o Netloc(u) \o ROBOTS_TXT IN
  IF outcome \in RobotsFailures
  THEN [allowed |-> TRUE, url |-> u, robots_url |-> robots_url, user_agent |-> user_agent,
        error |-> RobotsMessage(outcome)]
  ELSE [allowed |-> (outcome = "allowed"), url |-> u, robots_url |-> robots_url, user_agent |-> user_agent]

\* ---------------------------------------------------- RateLimiter, pure
\* Floats are exact fractions [n, d] in lowest terms.  The two divisions of
\* record_access, 60.0 / (60.0 / interval), give back the same double for an
\* interval that is itself 60.0 / r, so no rounding is modelled.
RECURSIVE Gcd(_, _)
Gcd(a, b) == IF b = 0 THEN a ELSE Gcd(b, a % b)
Frac(n, d) == [n |-> n \div Gcd(n, d), d |-> d \div Gcd(n, d)]
\* 60.0 / x
Div60(x) == Frac(60 * x.d, x.n)
\* a - b >= x for integer clock readings a, b
ElapsedAtLeast(a, b, x) == (a - b) * x.d >= x.n

\* crawler.py:566-570
RateLimiter(domain, requests_per_minute) ==
  [domain |-> domain, interval |-> Div60(requests_per_minute), last_access_time |-> 0]

\* variant: the comparison is strict
can_proceed_strict(self, current_time) ==
  (current_time - self.last_access_time) * self.interval.d > self.interval.n

\* crawler.py:572-576
can_proceed(self, current_time) ==
  ElapsedAtLeast(current_time, self.last_access_time, self.interval)

\* variant: the access time is written into the limiter itself
record_access_in_place(self, current_time) ==
  [self |-> [self EXCEPT !.last_access_time = current_time],
   new |-> [self EXCEPT !.last_access_time = current_time]]

\* crawler.py:578-582: the limiter after the call, and the limiter returned
record_access(self, current_time) ==
  [self |-> self,
   new |-> [RateLimiter(self.domain, Div60(self.interval)) EXCEPT !.last_access_time = current_time]]

Domains == {"a.io", "b.io"}
\* requests_per_minute of the limiters created: intervals of 1, 3/2 and 2 seconds
Rates == {Frac(60, 1), Frac(40, 1), Frac(30, 1)}
\* time.time() when the first limiter is created
NOW0 == 100

\* ----------------------------------------------------------------- inputs
Urls == {U_PLAIN, U_HTTPBIN}
ApiUrls == {U_PLAIN, U_HTTPBIN, U_BARE}
RobotsUrls == {U_PLAIN, U_BARE, U_PORT}
UserAgents == {DEFAULT_AGENT, "bot"}
ListsOf(x, n) == UNION {[1..k -> {x}] : k \in 0..n}
WaitLists == {NoneList} \cup ListsOf(S_h1, MaxWaits)
ScriptLists == {NoneList} \cup ListsOf(JS_SCROLL, MaxScripts)
SelectorArgs == {NoneArg, EmptyDict} \cup {DictOf([base_selector |-> b]) : b \in {<<>>, S_h1, S_H1, S_div}}
OptionArgs ==
  {NoneArg} \cup
  {DictOf(ub @@ ws @@ js @@ sc) :
     ub \in {<<>>} \cup {"use_browser" :> b : b \in BOOLEAN},
     ws \in {<<>>} \cup {"wait_selectors" :> w : w \in WaitLists},
     js \in {<<>>} \cup {"js_scripts" :> j : j \in ScriptLists},
     sc \in {<<>>} \cup {"extraction_schema" :> x : x \in {NoData, SCHEMA}}}
\* models.py:70-94, the fields of ExtractionOptions the handler and the backends read
Requests ==
  [url : ApiUrls,
   selectors : {NoneArg} \cup {ModelOf([base_selector |-> b]) : b \in {PyNone, S_h1, S_div}},
   extraction_schema : {NoData, SCHEMA},
   user_agent : {PyNone},
   use_browser : BOOLEAN,
   js_scripts : ScriptLists,
   wait_selectors : WaitLists,
   check_robots_txt : BOOLEAN]
NoRequest == [none |-> TRUE]

\* main.py:84, request_data.model_dump(exclude={"url", "selectors"})
model_dump(req) ==
  DictOf([k \in (DOMAIN req) \ {"url", "selectors"} |-> req[k]])

\* ------------------------------------------------------------------ state
VARIABLES
  pc,                  \* where the request is
  entry,               \* function the caller invoked: "api", "extract", "playwright"
  request,             \* request_data of /extract
  given,               \* selectors and options as the caller passed them
  url, selectors, options,   \* arguments / locals of the running backend function
  aliased,             \* options is the caller's dict object, not a copy
  callerOptions,       \* the dict object the caller of extract_content holds
  robots,              \* what the robots check of /extract did
  extracted_html, extracted_text, redirected_url, base_selector,
  wait_selectors, js_scripts, waitIdx, scriptIdx,
  browser,             \* chromium.launch returned a browser
  page,                \* the document the Playwright page shows
  pending,             \* exception travelling through the finally block
  extraction_strategy, \* a JsonCssExtractionStrategy was built
  crawler,             \* the AsyncWebCrawler exists
  crawlReturn,         \* what crawler.crawl did
  result,              \* results[0] of the crawl
  pendingRet,          \* value of a return statement waiting for finally
  calls,               \* how often each external operation was attempted
  failures,            \* the external operations that raised
  pwRet,               \* value returned by extract_content_playwright
  ret,                 \* value returned to the caller of the backend
  raised,              \* exception that left extract_content
  api_result,          \* `result` of the /extract handler: what the awaited backend gave it
  status, detail,      \* HTTP status of /extract and the detail of its error
  http_response        \* body of the 200 response of /extract

VARIABLES
  limiters,            \* the RateLimiter objects, in order of creation
  now,                 \* what time.time() returns
  accesses,            \* the record_access calls made: original, its fields before, result
  probe                \* the last can_proceed call: limiter, time, answer

\* two extract_content calls in flight on one event loop
VARIABLES
  heap,                \* the options dicts the callers built, by object identity
  tasks,               \* the two calls: arguments, locals, position, result
  resources            \* the crawlers and browsers created: owner, closer

limiterVars == <<limiters, now, accesses, probe>>
pairVars == <<heap, tasks, resources>>
inputVars == <<entry, request, url, given>>
argVars == <<selectors, options, aliased, callerOptions>>
pwVars == <<extracted_html, extracted_text, redirected_url, base_selector,
            wait_selectors, js_scripts, waitIdx, scriptIdx, browser, page, pending>>
stVars == <<extraction_strategy, crawler, crawlReturn, result, pendingRet>>
outVars == <<pwRet, ret, raised, api_result, status, detail, http_response>>
requestVars == <<pc, inputVars, argVars, robots, pwVars, stVars, calls, failures, outVars>>
\* state outside the running request
elsewhere == <<limiterVars, pairVars>>
vars == <<requestVars, elsewhere>>

NoCalls == [op \in {"robots", "extract_content", "extract_content_playwright", "async_playwright",
                    "launch", "new_context", "new_page", "goto", "wait", "script", "extract", "browser_close",
                    "crawler_new", "crawl", "crawler_close"} |-> 0]
Bump(op) == [calls EXCEPT ![op] = @ + 1]
\* the environment's answer to one external call
Attempt(op, ok) == /\ calls' = Bump(op)
                   /\ failures' = IF ok THEN failures ELSE failures \cup {op}
NoArgs == [none |-> TRUE]

\* the two calls and a call that has not been made
Tasks == {1, 2}
NoTask == [pc |-> "none", sels |-> NoneArg, ref |-> 0, given |-> NoneArg,
           env |-> [crawlerOk |-> TRUE, crawl |-> [state |-> "none"], launchOk |-> TRUE],
           after |-> FALSE, aliased |-> FALSE, local |-> EmptyDict, strategy |-> FALSE, own |-> 0,
           result |-> NoData, extraction |-> NoData, pendingRet |-> NoData, ret |-> NoData]

Init ==
  /\ pc = "idle"
  /\ entry = "none" /\ request = NoRequest /\ url = <<>> /\ given = NoArgs
  /\ selectors = NoneArg /\ options = NoneArg /\ aliased = FALSE /\ callerOptions = NoneArg
  /\ robots = [outcome |-> "none"]
  /\ extracted_html = <<>> /\ extracted_text = <<>> /\ redirected_url = <<>> /\ base_selector = PyNone
  /\ wait_selectors = <<>> /\ js_scripts = <<>> /\ waitIdx = 1 /\ scriptIdx = 1
  /\ browser = FALSE /\ page = P_BLANK /\ pending = "none"
  /\ extraction_strategy = FALSE /\ crawler = FALSE /\ crawlReturn = [state |-> "none"]
  /\ result = NoData /\ pendingRet = NoData
  /\ calls = NoCalls /\ failures = {}
  /\ pwRet = NoData /\ ret = NoData /\ raised = "none"
  /\ api_result = NoData /\ status = 0 /\ detail = <<>> /\ http_response = NoData
  /\ limiters = <<>> /\ now = NOW0 /\ accesses = <<>> /\ probe = [limiter |-> 0]
  /\ heap = <<>> /\ tasks = [i \in Tasks |-> NoTask] /\ resources = <<>>

\* a `return v` / an exception leaving the backend: back to the caller
Return(v) ==
  /\ ret' = v
  /\ api_result' = IF entry = "api" THEN v ELSE api_result
  /\ pc' = IF entry = "api" THEN "api_validate" ELSE "done"
  /\ UNCHANGED <<raised, status, detail, http_response>>
Escape(e) ==
  /\ raised' = e
  /\ pc' = IF entry = "api" THEN "api_error" ELSE "done"
  /\ UNCHANGED <<pwRet, ret, api_result, status, detail, http_response>>
\* extract_content_playwright returns v; crawler.py:263 returns it unchanged
PlaywrightReturn(v) == pwRet' = v /\ Return(v)
\* the static part of extract_content returns v
StaticReturn(v) == Return(v) /\ UNCHANGED pwRet
\* the backend function has handed control back to its caller
Returned == pc \in {"api_validate", "api_error", "done"}

\* ------------------------------------------------------------ the callers
\* a caller awaits extract_content_playwright(url, selectors, options)
call_extract_content_playwright ==
  /\ pc = "idle"
  /\ \E u \in Urls, s \in SelectorArgs, o \in OptionArgs :
       /\ entry' = "playwright" /\ url' = u /\ selectors' = s /\ options' = o /\ callerOptions' = o
       /\ given' = [selectors |-> s, options |-> o]
  /\ calls' = Bump("extract_content_playwright")
  /\ pc' = "pw_start"
  /\ UNCHANGED <<request, aliased, robots, pwVars, stVars, failures, outVars>>
  /\ UNCHANGED elsewhere

\* a caller awaits extract_content(url, selectors, options)
call_extract_content ==
  /\ pc = "idle"
  /\ \E u \in Urls, s \in SelectorArgs, o \in OptionArgs :
       /\ entry' = "extract" /\ url' = u /\ selectors' = s /\ options' = o /\ callerOptions' = o
       /\ given' = [selectors |-> s, options |-> o]
  /\ calls' = Bump("extract_content")
  /\ pc' = "ec_start"
  /\ UNCHANGED <<request, aliased, robots, pwVars, stVars, failures, outVars>>
  /\ UNCHANGED elsewhere

\* a caller awaits check_robots_txt(url, user_agent); the function has no
\* await inside, it runs to its return in one step
call_check_robots_txt ==
  /\ pc = "idle"
  /\ \E u \in RobotsUrls, a \in UserAgents, o \in RobotsOutcomes :
       /\ entry' = "robots" /\ url' = u
       /\ robots' = [outcome |-> "returned", env |-> o, args |-> [url |-> u, user_agent |-> a],
                     result |-> check_robots_txt(u, a, o)]
       /\ Attempt("robots", o \notin RobotsFailures)
  /\ pc' = "done"
  /\ UNCHANGED <<request, given, argVars, pwVars, stVars, outVars>>
  /\ UNCHANGED elsewhere

\* POST /extract arrives, main.py:55-62
post_extract ==
  /\ pc = "idle"
  /\ \E req \in Requests :
       entry' = "api" /\ request' = req /\ url' = UrlStr(req.url)
  /\ pc' = "api_robots"
  /\ UNCHANGED <<given, argVars, robots, pwVars, stVars, calls, failures, outVars>>
  /\ UNCHANGED elsewhere

\* variant: the handler of the robots block catches HTTPException only
RobotsHandlerCatchesHTTPOnly(e) == e = "HTTPException403"

\* the `except Exception` of main.py:77 catches every exception of the robots
\* block; HTTPException derives from Exception
RobotsHandlerCatches(e) == e \in {"HTTPException403", "RobotsError"}

\* main.py:69, `request_data.user_agent or "Flux-RSS-Fabric-AI"`
robots_agent(req) == IF Truthy(req.user_agent) THEN req.user_agent ELSE DEFAULT_AGENT

\* main.py:64-79.  The awaited check either returns a decision or raises.
api_check_robots ==
  /\ pc = "api_robots"
  /\ IF request.check_robots_txt
     THEN \E o \in RobotsOutcomes \cup {"raises"} :
            LET e == IF o = "raises" THEN "RobotsError"
                     ELSE IF ~check_robots_txt(url, robots_agent(request), o).allowed THEN "HTTPException403"
                     ELSE "none" IN
            /\ robots' = IF o = "raises" THEN [outcome |-> "raised", env |-> o]
                         ELSE [outcome |-> "returned", env |-> o,
                               args |-> [url |-> url, user_agent |-> robots_agent(request)],
                               result |-> check_robots_txt(url, robots_agent(request), o)]
            /\ Attempt("robots", o \in {"allowed", "disallowed"})
            /\ IF e = "none" \/ RobotsHandlerCatches(e)
               THEN pc' = "api_dispatch" /\ UNCHANGED <<status, detail>>
               ELSE /\ pc' = "done"
                    /\ status' = IF e = "HTTPException403" THEN 403 ELSE 500
                    /\ detail' = <<e>>
     ELSE /\ robots' = [outcome |-> "skipped"]
          /\ pc' = "api_dispatch"
          /\ UNCHANGED <<calls, failures, status, detail>>
  /\ UNCHANGED <<inputVars, argVars, pwVars, stVars, pwRet, ret, raised, api_result, http_response>>
  /\ UNCHANGED elsewhere

\* main.py:83-95
api_dispatch ==
  /\ pc = "api_dispatch"
  /\ LET dumped == model_dump(request)
         forced == IF ArgTruthy(request.selectors) /\ KeyIn("base_selector", request.selectors)
                   THEN Put(dumped, "use_browser", TRUE) ELSE dumped IN
     /\ options' = forced /\ callerOptions' = forced
     /\ given' = [selectors |-> request.selectors, options |-> forced]
  /\ selectors' = request.selectors
  /\ calls' = Bump("extract_content")
  /\ pc' = "ec_start"
  /\ UNCHANGED <<entry, request, url, aliased, robots, pwVars, stVars, failures, outVars>>
  /\ UNCHANGED elsewhere

\* the values test_unit.py:179-191 and its like make a patched extract_content
\* return: None, the test's dict (content without html), a dict without
\* content and extracted_data, a dict with a None content field, a full dict
M_META == [url |-> U_PLAIN, extraction_time |-> TIMESTAMP, content_length |-> 12,
           extraction_strategy |-> "markdown"]
M_TEST == [content |-> [markdown |-> MD_FIT, raw_markdown |-> MD_RAW],
           extracted_data |-> NoData, metadata |-> M_META]
M_NOCONTENT == [metadata |-> M_META]
M_NULLHTML == [content |-> [html |-> PyNone, markdown |-> MD_FIT, raw_markdown |-> MD_RAW],
               extracted_data |-> NoData, metadata |-> M_META]
M_FULL == [content |-> [html |-> HTML_DOC, markdown |-> MD_FIT, raw_markdown |-> MD_RAW],
           extracted_data |-> StrValue(JSON_DATA), metadata |-> M_META]
MockReturns == {NoData, M_TEST, M_NOCONTENT, M_NULLHTML, M_FULL}

\* main.py:83-95 with app.main.extract_content patched (test_unit.py:174): the
\* mock takes the call and returns its return_value
api_dispatch_mocked ==
  /\ pc = "api_dispatch"
  /\ \E v \in MockReturns : api_result' = v
  /\ calls' = Bump("extract_content")
  /\ pc' = "api_validate"
  /\ UNCHANGED <<inputVars, argVars, robots, pwVars, stVars, failures, pwRet, ret, raised,
                 status, detail, http_response>>
  /\ UNCHANGED elsewhere

\* the response model of /extract (models.py:115-119): content is Dict[str, str]
ResponseValid(r) == \A k \in DOMAIN r.content : r.content[k] # PyNone

\* main.py:101-107
FillDefaults(r) ==
  [content |-> IF "content" \in DOMAIN r THEN r.content
               ELSE [html |-> <<>>, markdown |-> <<>>, raw_markdown |-> <<>>],
   extracted_data |-> IF "extracted_data" \in DOMAIN r THEN r.extracted_data ELSE NoData,
   metadata |-> r.metadata]

\* str(e) of an HTTPException: starlette's __str__ gives "<status>: <detail>"
HTTPExceptionStr(code, d) == <<code, ": ">> \o d

\* main.py:110-121: HTTPException(500, str(extract_error)) is raised inside the
\* outer try, caught by `except Exception as e` and wrapped again with str(e)
ErrorDetail(msg) == HTTPExceptionStr("500", <<msg>>)

\* main.py:97-109 and the response_model validation
api_validate ==
  /\ pc = "api_validate"
  /\ IF api_result = NoData
     THEN /\ status' = 500 /\ detail' = ErrorDetail("No result returned from extract_content")
          /\ UNCHANGED http_response
     ELSE IF ResponseValid(FillDefaults(api_result))
          THEN status' = 200 /\ detail' = <<>> /\ http_response' = FillDefaults(api_result)
          ELSE status' = 500 /\ detail' = <<"Internal Server Error">> /\ UNCHANGED http_response
  /\ pc' = "done"
  /\ UNCHANGED <<inputVars, argVars, robots, pwVars, stVars, calls, failures, pwRet, ret, raised,
                 api_result>>
  /\ UNCHANGED elsewhere

\* main.py:110-121
api_error ==
  /\ pc = "api_error"
  /\ status' = 500
  /\ detail' = ErrorDetail(raised)
  /\ pc' = "done"
  /\ UNCHANGED <<inputVars, argVars, robots, pwVars, stVars, calls, failures, pwRet, ret, raised,
                 api_result, http_response>>
  /\ UNCHANGED elsewhere

\* ------------------------------------------------------- extract_content
\* variant: the routing test reads a key the request never carries
use_browser_wrong_key(opts) == Get(opts, "browser", FALSE)

\* crawler.py:260, the routing test
use_browser(opts) == Get(opts, "use_browser", FALSE)

\* crawler.py:255-263
extract_content ==
  /\ pc = "ec_start"
  /\ options' = OrEmptyDict(options)
  /\ selectors' = OrEmptyDict(selectors)
  /\ aliased' = ArgTruthy(options)
  /\ IF use_browser(OrEmptyDict(options))
     THEN pc' = "pw_start" /\ calls' = Bump("extract_content_playwright")
     ELSE pc' = "ec_config" /\ UNCHANGED calls
  /\ UNCHANGED <<inputVars, callerOptions, robots, pwVars, stVars, failures, outVars>>
  /\ UNCHANGED elsewhere

\* crawler.py:307-308
has_base_selector(sels) ==
  /\ ArgTruthy(sels) /\ sels.kind = "dict"
  /\ "base_selector" \in DOMAIN sels.d /\ Truthy(sels.d["base_selector"])

\* crawler.py:312-316, the flags are written into the dict that was passed in
mark_direct_extraction(opts) == Put(Put(opts, "use_browser", TRUE), "use_direct_extraction", TRUE)

\* crawler.py:320
has_extraction_schema(opts) ==
  "extraction_schema" \in DOMAIN opts.d /\ opts.d["extraction_schema"] # NoData

\* crawler.py:266-354: the configuration objects are built outside any try;
\* a constructor that raises leaves extract_content
build_config ==
  /\ pc = "ec_config"
  /\ \E outcome \in {"ok", "raises_before", "raises_after"}, schemaOk \in BOOLEAN :
       LET has == has_base_selector(selectors)
           opts == IF has THEN mark_direct_extraction(options) ELSE options IN
       IF outcome = "raises_before"
       THEN /\ Escape("ConfigError")
            /\ failures' = failures \cup {"config"}
            /\ UNCHANGED <<options, callerOptions, extraction_strategy>>
       ELSE /\ options' = opts
            /\ callerOptions' = IF aliased THEN opts ELSE callerOptions
            /\ IF outcome = "raises_after"
               THEN /\ Escape("ConfigError")
                    /\ failures' = failures \cup {"config"}
                    /\ UNCHANGED extraction_strategy
               ELSE /\ extraction_strategy' = (~has /\ has_extraction_schema(options) /\ schemaOk)
                    /\ pc' = "ec_crawler"
                    /\ UNCHANGED <<failures, outVars>>
  /\ UNCHANGED <<inputVars, selectors, aliased, robots, pwVars, crawler, crawlReturn, result, pendingRet, calls>>
  /\ UNCHANGED elsewhere

\* crawler.py:370-389 (and 407-416 when the constructor raises: crawler is
\* still None, so nothing is closed)
create_crawler ==
  /\ pc = "ec_crawler"
  /\ \E ok \in BOOLEAN :
       /\ Attempt("crawler_new", ok)
       /\ IF ok THEN crawler' = TRUE /\ pc' = "ec_crawl" /\ UNCHANGED outVars
          ELSE StaticReturn(fallback_response(url)) /\ UNCHANGED crawler
  /\ UNCHANGED <<inputVars, argVars, robots, pwVars, extraction_strategy, crawlReturn, result, pendingRet>>
  /\ UNCHANGED elsewhere

\* variant: a crawl that raises is tried a second time
crawl_retrying ==
  /\ pc = "ec_crawl"
  /\ \/ \* the crawl raises
        /\ Attempt("crawl", FALSE)
        /\ IF calls.crawl = 0
           THEN pc' = "ec_crawl" /\ UNCHANGED <<crawlReturn, pendingRet, result>>
           ELSE /\ crawlReturn' = [state |-> "raised"]
                /\ pendingRet' = fallback_response(url) /\ UNCHANGED result
                /\ pc' = "ec_close"
     \/ \E rv \in CrawlReturns :
          /\ Attempt("crawl", TRUE)
          /\ crawlReturn' = [state |-> "returned", value |-> rv]
          /\ IF ~rv.isNone /\ Len(rv.list) > 0
             THEN result' = rv.list[1] /\ UNCHANGED pendingRet
             ELSE pendingRet' = fallback_response(url) /\ UNCHANGED result
          /\ pc' = "ec_close"
  /\ UNCHANGED <<inputVars, argVars, robots, pwVars, extraction_strategy, crawler, outVars>>
  /\ UNCHANGED elsewhere

\* crawler.py:391-413
crawl ==
  /\ pc = "ec_crawl"
  /\ \/ \* the crawl raises
        /\ Attempt("crawl", FALSE)
        /\ crawlReturn' = [state |-> "raised"]
        /\ pendingRet' = fallback_response(url) /\ UNCHANGED result
     \/ \E rv \in CrawlReturns :
          /\ Attempt("crawl", TRUE)
          /\ crawlReturn' = [state |-> "returned", value |-> rv]
          /\ IF ~rv.isNone /\ Len(rv.list) > 0
             THEN result' = rv.list[1] /\ UNCHANGED pendingRet
             ELSE pendingRet' = fallback_response(url) /\ UNCHANGED result
  /\ pc' = "ec_close"
  /\ UNCHANGED <<inputVars, argVars, robots, pwVars, extraction_strategy, crawler, outVars>>
  /\ UNCHANGED elsewhere

\* variant: close is not in a finally block, an early return skips it
close_crawler_not_finally ==
  /\ pc = "ec_close"
  /\ \E closeOk \in BOOLEAN :
       /\ IF crawler /\ pendingRet = NoData THEN Attempt("crawler_close", closeOk)
          ELSE UNCHANGED <<calls, failures>>
       /\ IF pendingRet # NoData THEN StaticReturn(pendingRet)
          ELSE StaticReturn(static_response(result, url, extraction_strategy, options))
  /\ UNCHANGED <<inputVars, argVars, robots, pwVars, stVars>>
  /\ UNCHANGED elsewhere

\* crawler.py:414-423 then the pending return, or 425-509
close_crawler ==
  /\ pc = "ec_close"
  /\ \E closeOk \in BOOLEAN :
       /\ IF crawler THEN Attempt("crawler_close", closeOk) ELSE UNCHANGED <<calls, failures>>
       /\ IF pendingRet # NoData THEN StaticReturn(pendingRet)
          ELSE StaticReturn(static_response(result, url, extraction_strategy, options))
  /\ UNCHANGED <<inputVars, argVars, robots, pwVars, stVars>>
  /\ UNCHANGED elsewhere

\* --------------------------------------------- extract_content_playwright
\* crawler.py:37-58
enter_playwright ==
  /\ pc = "pw_start"
  /\ selectors' = OrEmptyDict(selectors)
  /\ options' = OrEmptyDict(options)
  /\ aliased' = FALSE
  /\ wait_selectors' = Get(OrEmptyDict(options), "wait_selectors", <<>>)
  /\ js_scripts' = Get(OrEmptyDict(options), "js_scripts", <<>>)
  /\ extracted_html' = <<>> /\ extracted_text' = <<>> /\ redirected_url' = url
  /\ \E ok \in BOOLEAN :
       /\ Attempt("async_playwright", ok)
       /\ IF ok THEN pc' = "pw_launch" /\ UNCHANGED outVars
          ELSE PlaywrightReturn(create_fallback_response(url))
  /\ UNCHANGED <<inputVars, callerOptions, robots, base_selector, waitIdx, scriptIdx, browser, page,
                 pending, stVars>>
  /\ UNCHANGED elsewhere

\* crawler.py:60-65.  The return leaves `async with`; a failure of that exit
\* reaches the handler of crawler.py:162-165, which returns the same value.
launch ==
  /\ pc = "pw_launch"
  /\ \E ok \in BOOLEAN :
       /\ Attempt("launch", ok)
       /\ browser' = ok
       /\ IF ok THEN pc' = "pw_context" /\ UNCHANGED outVars
          ELSE PlaywrightReturn(create_fallback_response(url))
  /\ UNCHANGED <<inputVars, argVars, robots, extracted_html, extracted_text, redirected_url, base_selector,
                 wait_selectors, js_scripts, waitIdx, scriptIdx, page, pending, stVars>>
  /\ UNCHANGED elsewhere

\* crawler.py:68-73
new_context ==
  /\ pc = "pw_context"
  /\ \E ok \in BOOLEAN :
       /\ Attempt("new_context", ok)
       /\ IF ok THEN pc' = "pw_page" /\ UNCHANGED pending
          ELSE pc' = "pw_close" /\ pending' = "PlaywrightError"
  /\ UNCHANGED <<inputVars, argVars, robots, extracted_html, extracted_text, redirected_url, base_selector,
                 wait_selectors, js_scripts, waitIdx, scriptIdx, browser, page, stVars, outVars>>
  /\ UNCHANGED elsewhere

\* crawler.py:74
new_page ==
  /\ pc = "pw_page"
  /\ \E ok \in BOOLEAN :
       /\ Attempt("new_page", ok)
       /\ IF ok THEN pc' = "pw_goto" /\ page' = P_BLANK /\ UNCHANGED pending
          ELSE pc' = "pw_close" /\ pending' = "PlaywrightError" /\ UNCHANGED page
  /\ UNCHANGED <<inputVars, argVars, robots, extracted_html, extracted_text, redirected_url, base_selector,
                 wait_selectors, js_scripts, waitIdx, scriptIdx, browser, stVars, outVars>>
  /\ UNCHANGED elsewhere

\* crawler.py:76-83: a failed navigation leaves the page as it is
goto ==
  /\ pc = "pw_goto"
  /\ \/ Attempt("goto", FALSE) /\ UNCHANGED <<page, redirected_url>>
     \/ \E doc \in Pages, response \in BOOLEAN, page_url \in {url, U_REDIRECT} :
          /\ Attempt("goto", TRUE)
          /\ page' = doc
          /\ redirected_url' = IF response THEN page_url ELSE redirected_url
  /\ pc' = "pw_wait"
  /\ UNCHANGED <<inputVars, argVars, robots, extracted_html, extracted_text, base_selector,
                 wait_selectors, js_scripts, waitIdx, scriptIdx, browser, pending, stVars, outVars>>
  /\ UNCHANGED elsewhere

\* variant: a wait that fails ends the page work
wait_for_selector_aborting ==
  /\ pc = "pw_wait"
  /\ IF wait_selectors = NoneList
     THEN pending' = "TypeError" /\ pc' = "pw_close" /\ UNCHANGED <<waitIdx, calls, failures>>
     ELSE /\ waitIdx <= Len(wait_selectors)
          /\ \E ok \in BOOLEAN :
               /\ Attempt("wait", ok)
               /\ IF ok THEN UNCHANGED <<pending, pc>>
                  ELSE pending' = "PlaywrightError" /\ pc' = "pw_close"
          /\ waitIdx' = waitIdx + 1
  /\ UNCHANGED <<inputVars, argVars, robots, extracted_html, extracted_text, redirected_url, base_selector,
                 wait_selectors, js_scripts, scriptIdx, browser, page, stVars, outVars>>
  /\ UNCHANGED elsewhere

\* crawler.py:85-91, one turn of the loop; iterating None raises TypeError
wait_for_selector ==
  /\ pc = "pw_wait"
  /\ IF wait_selectors = NoneList
     THEN pending' = "TypeError" /\ pc' = "pw_close" /\ UNCHANGED <<waitIdx, calls, failures>>
     ELSE /\ waitIdx <= Len(wait_selectors)
          /\ \E ok \in BOOLEAN : Attempt("wait", ok)
          /\ waitIdx' = waitIdx + 1
          /\ UNCHANGED <<pending, pc>>
  /\ UNCHANGED <<inputVars, argVars, robots, extracted_html, extracted_text, redirected_url, base_selector,
                 wait_selectors, js_scripts, scriptIdx, browser, page, stVars, outVars>>
  /\ UNCHANGED elsewhere

\* crawler.py:86, the wait loop is exhausted
waits_done ==
  /\ pc = "pw_wait"
  /\ wait_selectors # NoneList /\ waitIdx > Len(wait_selectors)
  /\ pc' = "pw_script"
  /\ UNCHANGED <<inputVars, argVars, robots, pwVars, stVars, calls, failures, outVars>>
  /\ UNCHANGED elsewhere

\* crawler.py:93-99, one turn of the loop
evaluate_script ==
  /\ pc = "pw_script"
  /\ IF js_scripts = NoneList
     THEN pending' = "TypeError" /\ pc' = "pw_close" /\ UNCHANGED <<scriptIdx, calls, failures>>
     ELSE /\ scriptIdx <= Len(js_scripts)
          /\ \E ok \in BOOLEAN : Attempt("script", ok)
          /\ scriptIdx' = scriptIdx + 1
          /\ UNCHANGED <<pending, pc>>
  /\ UNCHANGED <<inputVars, argVars, robots, extracted_html, extracted_text, redirected_url, base_selector,
                 wait_selectors, js_scripts, waitIdx, browser, page, stVars, outVars>>
  /\ UNCHANGED elsewhere

\* crawler.py:94, the script loop is exhausted
scripts_done ==
  /\ pc = "pw_script"
  /\ js_scripts # NoneList /\ scriptIdx > Len(js_scripts)
  /\ pc' = "pw_extract"
  /\ UNCHANGED <<inputVars, argVars, robots, pwVars, stVars, calls, failures, outVars>>
  /\ UNCHANGED elsewhere

\* crawler.py:101-155.  `fails` is the set of page calls that raise on this
\* page; "page" in failures records that the page has such a call.
extract_page_content ==
  /\ pc = "pw_extract"
  /\ \E fails \in FailureSets :
       LET e == ExtractStage(url, selectors, page, fails) IN
       /\ extracted_html' = e.html /\ extracted_text' = e.text
       /\ base_selector' = e.base_selector /\ pending' = e.exc
       /\ failures' = IF fails = {} THEN failures ELSE failures \cup {"page"}
  /\ calls' = Bump("extract")
  /\ pc' = "pw_close"
  /\ UNCHANGED <<inputVars, argVars, robots, redirected_url, wait_selectors, js_scripts, waitIdx, scriptIdx,
                 browser, page, stVars, outVars>>
  /\ UNCHANGED elsewhere

\* variant: close is not in a finally block, an exception skips it
close_browser_not_finally ==
  /\ pc = "pw_close"
  /\ \E closeOk \in BOOLEAN, exitOk \in BOOLEAN :
       /\ IF pending = "none"
          THEN /\ calls' = Bump("browser_close")
               /\ failures' = failures \cup (IF closeOk THEN {} ELSE {"browser_close"})
                                       \cup (IF exitOk THEN {} ELSE {"exit"})
          ELSE UNCHANGED <<calls, failures>>
       /\ IF pending # "none" \/ ~exitOk
          THEN PlaywrightReturn(create_fallback_response(url))
          ELSE PlaywrightReturn(PlaywrightResult(extracted_html, extracted_text, base_selector, redirected_url))
  /\ UNCHANGED <<inputVars, argVars, robots, pwVars, stVars>>
  /\ UNCHANGED elsewhere

\* variant: there is no outer handler, the pending exception reaches the caller
close_browser_reraising ==
  /\ pc = "pw_close"
  /\ \E closeOk \in BOOLEAN, exitOk \in BOOLEAN :
       /\ calls' = Bump("browser_close")
       /\ failures' = failures \cup (IF closeOk THEN {} ELSE {"browser_close"})
                               \cup (IF exitOk THEN {} ELSE {"exit"})
       /\ IF pending # "none" THEN Escape(pending)
          ELSE IF ~exitOk THEN PlaywrightReturn(create_fallback_response(url))
          ELSE PlaywrightReturn(PlaywrightResult(extracted_html, extracted_text, base_selector, redirected_url))
  /\ UNCHANGED <<inputVars, argVars, robots, pwVars, stVars>>
  /\ UNCHANGED elsewhere

\* crawler.py:156-165 and 167-195: close in the finally block (a failure of
\* close is printed), leave `async with` (a failure there reaches the outer
\* handler), then the fallback for a pending exception or the result
close_browser ==
  /\ pc = "pw_close"
  /\ \E closeOk \in BOOLEAN, exitOk \in BOOLEAN :
       /\ calls' = Bump("browser_close")
       /\ failures' = failures \cup (IF closeOk THEN {} ELSE {"browser_close"})
                               \cup (IF exitOk THEN {} ELSE {"exit"})
       /\ IF pending # "none" \/ ~exitOk
          THEN PlaywrightReturn(create_fallback_response(url))
          ELSE PlaywrightReturn(PlaywrightResult(extracted_html, extracted_text, base_selector, redirected_url))
  /\ UNCHANGED <<inputVars, argVars, robots, pwVars, stVars>>
  /\ UNCHANGED elsewhere

\* ------------------------------------------------- two calls in flight
\* what the callers pass: the page is U_PLAIN for both calls
PairSelectors == {NoneArg, DictOf([base_selector |-> S_h1])}
PairOptions == {EmptyDict, DictOf([use_browser |-> FALSE]), DictOf([use_browser |-> TRUE])}
\* the answers of the outside world to one call: the AsyncWebCrawler
\* constructor, crawler.crawl, chromium.launch; the page itself is P_DOC,
\* which the static crawl returns as R_FULL
PairEnvs == [crawlerOk : BOOLEAN,
             crawl : {[state |-> "raised"], [state |-> "returned", value |-> <<R_FULL>>]},
             launchOk : BOOLEAN]

\* crawler.py:264-509 run by itself on an options value
StaticAlone(sels, opts, env) ==
  IF ~env.crawlerOk \/ env.crawl.state = "raised" \/ Len(env.crawl.value) = 0
  THEN fallback_response(U_PLAIN)
  ELSE static_response(env.crawl.value[1], U_PLAIN,
                       ~has_base_selector(sels) /\ has_extraction_schema(opts),
                       IF has_base_selector(sels) THEN mark_direct_extraction(opts) ELSE opts)

\* crawler.py:37-195 run by itself on an options value
PlaywrightAlone(sels, opts, env) ==
  LET e == ExtractStage(U_PLAIN, sels, P_DOC, {}) IN
  IF ~env.launchOk \/ Get(opts, "wait_selectors", <<>>) = NoneList
     \/ Get(opts, "js_scripts", <<>>) = NoneList \/ e.exc # "none"
  THEN create_fallback_response(U_PLAIN)
  ELSE PlaywrightResult(e.html, e.text, e.base_selector, U_PLAIN)

\* crawler.py:255-263: the call run with no other call in flight, on the
\* options as they were when the caller made the call
Alone(t) ==
  IF use_browser(OrEmptyDict(t.given))
  THEN PlaywrightAlone(OrEmptyDict(t.sels), OrEmptyDict(t.given), t.env)
  ELSE StaticAlone(OrEmptyDict(t.sels), OrEmptyDict(t.given), t.env)

\* `options` as the static part reads it: the caller's dict when crawler.py:256
\* kept that object, the fresh {} otherwise
OptionsNow(t) == IF t.aliased THEN heap[t.ref] ELSE t.local

\* a caller makes the call extract_content(url, selectors, options): options
\* is None, a dict built for this call, or the dict object the other call got
pair_call(i) ==
  /\ tasks[i].pc = "none"
  /\ i = 2 => tasks[1].pc # "none"
  /\ \E s \in PairSelectors, e \in PairEnvs, o \in PairOptions \cup {NoneArg}, share \in BOOLEAN :
       LET j == 3 - i
           ref == IF share THEN tasks[j].ref ELSE IF o = NoneArg THEN 0 ELSE Len(heap) + 1 IN
       /\ share => (tasks[j].ref # 0 /\ o = NoneArg)
       /\ heap' = IF ~share /\ o # NoneArg THEN Append(heap, o) ELSE heap
       /\ tasks' = [tasks EXCEPT ![i] =
                      [NoTask EXCEPT !.pc = "called", !.sels = s, !.ref = ref, !.env = e,
                                     !.given = IF ref = 0 THEN NoneArg ELSE heap'[ref],
                                     !.after = (tasks[j].pc = "done")]]
  /\ UNCHANGED <<resources, requestVars, limiterVars>>

\* crawler.py:255-263, then up to the first await: crawler.py:37-58 on the
\* Playwright side, crawler.py:264-391 on the static side (the flags of
\* crawler.py:315-316 are written, the AsyncWebCrawler is created)
pair_enter(i) ==
  /\ tasks[i].pc = "called"
  /\ LET t == tasks[i]
         arg == IF t.ref = 0 THEN NoneArg ELSE heap[t.ref]
         opts == OrEmptyDict(arg)
         sels == OrEmptyDict(t.sels)
         conf == IF has_base_selector(sels) THEN mark_direct_extraction(opts) ELSE opts IN
     IF use_browser(opts)
     THEN /\ tasks' = [tasks EXCEPT ![i] = [t EXCEPT !.pc = "pw_work", !.sels = sels, !.local = opts]]
          /\ UNCHANGED <<heap, resources>>
     ELSE /\ heap' = IF ArgTruthy(arg) THEN [heap EXCEPT ![t.ref] = conf] ELSE heap
          /\ IF t.env.crawlerOk
             THEN /\ resources' = Append(resources, [kind |-> "crawler", owner |-> i, closedBy |-> 0])
                  /\ tasks' = [tasks EXCEPT ![i] =
                                 [t EXCEPT !.pc = "static_crawl", !.sels = sels, !.local = conf,
                                           !.aliased = ArgTruthy(arg), !.own = Len(resources) + 1,
                                           !.strategy = ~has_base_selector(sels) /\ has_extraction_schema(opts)]]
             ELSE /\ tasks' = [tasks EXCEPT ![i] =
                                 [t EXCEPT !.pc = "done", !.sels = sels, !.local = conf,
                                           !.aliased = ArgTruthy(arg), !.ret = fallback_response(U_PLAIN)]]
                  /\ UNCHANGED resources
  /\ UNCHANGED <<requestVars, limiterVars>>

\* crawler.py:391-413, the awaited crawl answers
pair_crawl(i) ==
  /\ tasks[i].pc = "static_crawl"
  /\ LET t == tasks[i] IN
     tasks' = [tasks EXCEPT ![i] =
                 IF t.env.crawl.state = "raised" \/ Len(t.env.crawl.value) = 0
                 THEN [t EXCEPT !.pc = "static_close", !.pendingRet = fallback_response(U_PLAIN)]
                 ELSE [t EXCEPT !.pc = "static_close", !.result = t.env.crawl.value[1]]]
  /\ UNCHANGED <<heap, resources, requestVars, limiterVars>>

\* variant: the crawler is kept in a module-level variable, the call closes
\* the one created last
pair_close_crawler_global(i) ==
  /\ tasks[i].pc = "static_close"
  /\ LET t == tasks[i] IN
     /\ resources' = [resources EXCEPT ![Len(resources)].closedBy = i]
     /\ tasks' = [tasks EXCEPT ![i] =
                    [t EXCEPT !.pc = "done",
                              !.ret = IF t.pendingRet # NoData THEN t.pendingRet
                                      ELSE static_response(t.result, U_PLAIN, t.strategy, OptionsNow(t))]]
  /\ UNCHANGED <<heap, requestVars, limiterVars>>

\* crawler.py:414-423 and 425-509: the call closes the crawler its local
\* variable holds, then returns
pair_close_crawler(i) ==
  /\ tasks[i].pc = "static_close"
  /\ LET t == tasks[i] IN
     /\ resources' = [resources EXCEPT ![t.own].closedBy = i]
     /\ tasks' = [tasks EXCEPT ![i] =
                    [t EXCEPT !.pc = "done",
                              !.ret = IF t.pendingRet # NoData THEN t.pendingRet
                                      ELSE static_response(t.result, U_PLAIN, t.strategy, OptionsNow(t))]]
  /\ UNCHANGED <<heap, requestVars, limiterVars>>

\* crawler.py:56-155: launch, navigation, waits, scripts and extraction, all
\* on the call's own browser, page and copy of the options (crawler.py:39)
pair_browse(i) ==
  /\ tasks[i].pc = "pw_work"
  /\ LET t == tasks[i]
         e == ExtractStage(U_PLAIN, t.sels, P_DOC, {})
         lists == Get(t.local, "wait_selectors", <<>>) # NoneList
                  /\ Get(t.local, "js_scripts", <<>>) # NoneList IN
     IF t.env.launchOk
     THEN /\ resources' = Append(resources, [kind |-> "browser", owner |-> i, closedBy |-> 0])
          /\ tasks' = [tasks EXCEPT ![i] =
                         [t EXCEPT !.pc = "pw_close", !.own = Len(resources) + 1,
                                   !.extraction = IF lists THEN e
                                                  ELSE Extracted(<<>>, <<>>, PyNone, "TypeError")]]
     ELSE /\ tasks' = [tasks EXCEPT ![i] = [t EXCEPT !.pc = "done", !.ret = create_fallback_response(U_PLAIN)]]
          /\ UNCHANGED resources
  /\ UNCHANGED <<heap, requestVars, limiterVars>>

\* crawler.py:156-195
pair_close_browser(i) ==
  /\ tasks[i].pc = "pw_close"
  /\ LET t == tasks[i]
         e == t.extraction IN
     /\ resources' = [resources EXCEPT ![t.own].closedBy = i]
     /\ tasks' = [tasks EXCEPT ![i] =
                    [t EXCEPT !.pc = "done",
                              !.ret = IF e.exc # "none" THEN create_fallback_response(U_PLAIN)
                                      ELSE PlaywrightResult(e.html, e.text, e.base_selector, U_PLAIN)]]
  /\ UNCHANGED <<heap, requestVars, limiterVars>>

NextPair ==
  \E i \in Tasks :
    \/ pair_call(i)
    \/ pair_enter(i)
    \/ pair_crawl(i)
    \/ pair_close_crawler(i)
    \/ pair_browse(i)
    \/ pair_close_browser(i)
SpecPair == Init /\ [][NextPair]_vars

\* ------------------------------------------------------------ RateLimiter
\* RateLimiter(domain, requests_per_minute), crawler.py:566-570
new_limiter ==
  /\ Len(limiters) < MaxLimiters
  /\ \E d \in Domains, r \in Rates : limiters' = Append(limiters, RateLimiter(d, r))
  /\ UNCHANGED <<now, accesses, probe, requestVars, pairVars>>

\* limiter.record_access(), crawler.py:578-582
call_record_access ==
  /\ Len(limiters) < MaxLimiters
  /\ \E i \in 1..Len(limiters) :
       LET r == record_access(limiters[i], now) IN
       /\ limiters' = Append([limiters EXCEPT ![i] = r.self], r.new)
       /\ accesses' = Append(accesses, [orig |-> i, before |-> limiters[i],
                                        new |-> Len(limiters) + 1, at |-> now])
  /\ UNCHANGED <<now, probe, requestVars, pairVars>>

\* limiter.can_proceed(), crawler.py:572-576
call_can_proceed ==
  /\ \E i \in 1..Len(limiters) :
       probe' = [limiter |-> i, at |-> now, answer |-> can_proceed(limiters[i], now)]
  /\ UNCHANGED <<limiters, now, accesses, requestVars, pairVars>>

\* a second passes
tick ==
  /\ now < NOW0 + MaxTime
  /\ now' = now + 1
  /\ UNCHANGED <<limiters, accesses, probe, requestVars, pairVars>>

NextLimiter == new_limiter \/ call_record_access \/ call_can_proceed \/ tick
SpecLimiter == Init /\ [][NextLimiter]_vars

Next ==
  \/ call_extract_content_playwright
  \/ call_extract_content
  \/ call_check_robots_txt
  \/ post_extract
  \/ api_check_robots
  \/ api_dispatch
  \/ api_dispatch_mocked
  \/ api_validate
  \/ api_error
  \/ extract_content
  \/ build_config
  \/ create_crawler
  \/ crawl
  \/ close_crawler
  \/ enter_playwright
  \/ launch
  \/ new_context
  \/ new_page
  \/ goto
  \/ wait_for_selector
  \/ waits_done
  \/ evaluate_script
  \/ scripts_done
  \/ extract_page_content
  \/ close_browser

Spec == Init /\ [][Next]_vars

\* ----------------------------------------------------------- properties
EmptyContent == [html |-> <<>>, markdown |-> <<>>, raw_markdown |-> <<>>]
\* the caller went through extract_content and its arguments are known
ThroughExtractContent == entry \in {"extract", "api"} /\ given # NoArgs
RequestedBaseSelector == Get(given.selectors, "base_selector", PyNone)
RequestedUseBrowser == Get(given.options, "use_browser", FALSE)
StringsOnly(r) == \A k \in {"html", "markdown", "raw_markdown"} : k \in DOMAIN r.content /\ r.content[k] # PyNone

\* C1: when /extract has check_robots_txt enabled and the checker returns
\* allowed=false, the request ends in a 403 rejection and no extraction
\* backend is invoked for it.
C1_RobotsDisallowRejected ==
  (entry = "api" /\ robots.outcome = "returned" /\ ~robots.result.allowed) =>
     /\ pc = "done" /\ status = 403
     /\ calls.extract_content = 0 /\ calls.launch = 0 /\ calls.crawl = 0

\* C2: a request whose selectors carry a non-empty base_selector is served by
\* the Playwright backend whatever use_browser says: the static crawler is not
\* run and the returned extraction_strategy is 'playwright'.
C2_BaseSelectorRoutesToPlaywright ==
  (ThroughExtractContent /\ Truthy(RequestedBaseSelector)) =>
     /\ calls.crawler_new = 0 /\ calls.crawl = 0
     /\ (ret # NoData => ret.metadata.extraction_strategy = "playwright")

\* C3: a request with use_browser=false and no base_selector is served by the
\* static backend, and every result it returns is labelled 'markdown' or
\* 'schema'.
C3_StaticStrategyLabel ==
  (ThroughExtractContent /\ ~RequestedUseBrowser /\ ~Truthy(RequestedBaseSelector)) =>
     /\ calls.extract_content_playwright = 0
     /\ (ret # NoData => ret.metadata.extraction_strategy \in {"markdown", "schema"})

\* C4: with options.use_browser true, extract_content returns exactly what
\* extract_content_playwright returned and never creates or runs an
\* AsyncWebCrawler.
C4_UseBrowserDelegates ==
  (ThroughExtractContent /\ RequestedUseBrowser) =>
     /\ calls.crawler_new = 0 /\ calls.crawl = 0
     /\ Returned => /\ calls.extract_content_playwright = 1
                    /\ raised = "none" /\ ret # NoData /\ ret = pwRet
C4_Witness ==
  /\ entry = "extract" /\ pc = "done" /\ given # NoArgs /\ RequestedUseBrowser
  /\ ret # NoData /\ ret.content.html = T_HI /\ ret = pwRet

\* C5: every value extract_content or extract_content_playwright returns has
\* content.html, content.markdown and content.raw_markdown present and strings.
C5_ContentAlwaysStrings ==
  /\ ret # NoData => StringsOnly(ret)
  /\ pwRet # NoData => StringsOnly(pwRet)
C5_Witness ==
  /\ pc = "done" /\ result = R_NOFIT /\ ret # NoData
  /\ ret.content.markdown = <<>> /\ ret.content.raw_markdown = MD_RAW /\ ret.content.html = <<>>

\* C6: once the browser launch has succeeded, browser.close() is attempted
\* exactly once before extract_content_playwright returns, on every exit path,
\* and a failure of close is not raised to the caller.
C6_BrowserClosedOnce ==
  /\ calls.browser_close <= 1
  /\ ~browser => calls.browser_close = 0
  /\ (browser /\ Returned) => (calls.browser_close = 1 /\ raised = "none" /\ pwRet # NoData)
C6_Witness ==
  /\ browser /\ Returned /\ pending = "PlaywrightError"
  /\ "browser_close" \in failures /\ calls.browser_close = 1

\* C7: whenever the AsyncWebCrawler was created, crawler.close() is called
\* exactly once before extract_content returns (crawl succeeded, returned
\* nothing, or raised), and a failing close leaves the returned result as it is.
C7_CrawlerClosedOnce ==
  /\ calls.crawler_close <= 1
  /\ ~crawler => calls.crawler_close = 0
  /\ (crawler /\ Returned) =>
       /\ calls.crawler_close = 1 /\ raised = "none"
       /\ ret = IF pendingRet # NoData THEN pendingRet
                ELSE static_response(result, url, extraction_strategy, options)
C7_Witness ==
  /\ crawler /\ Returned /\ crawlReturn.state = "raised"
  /\ "crawler_close" \in failures /\ calls.crawler_close = 1

\* C8: when the browser launch fails, extract_content_playwright returns at
\* once (no navigation, no second launch) a result with empty html, markdown
\* and raw_markdown and extraction_strategy 'playwright', for every url, and
\* raises nothing.
C8_LaunchFailureGivesEmptyResult ==
  ("launch" \in failures /\ Returned) =>
     /\ calls.launch = 1 /\ calls.goto = 0 /\ raised = "none"
     /\ pwRet # NoData /\ pwRet.content = EmptyContent
     /\ pwRet.metadata.extraction_strategy = "playwright"

\* C9: extract_content_playwright never raises: a failure at any stage ends
\* with a returned result, which is the degraded fallback whenever no
\* step-level handler absorbed the failure.
Unabsorbed == pending # "none" \/ failures \cap {"async_playwright", "launch", "exit"} # {}
C9_PlaywrightNeverRaises ==
  (calls.extract_content_playwright >= 1 /\ Returned) =>
     /\ raised = "none" /\ pwRet # NoData /\ ret = pwRet
     /\ Unabsorbed => pwRet = create_fallback_response(url)
C9_Witness ==
  /\ Returned /\ pending = "TypeError" /\ "goto" \in failures
  /\ pwRet = create_fallback_response(url)

\* C10: in the static backend, when the crawl raises or returns an empty
\* result list, extract_content returns (does not raise) a result with empty
\* html, markdown and raw_markdown and extracted_data null.
CrawlFailedOrEmpty ==
  \/ crawlReturn.state = "raised"
  \/ crawlReturn.state = "returned" /\ ~crawlReturn.value.isNone /\ Len(crawlReturn.value.list) = 0
C10_CrawlFailureGivesEmptyResult ==
  (CrawlFailedOrEmpty /\ Returned) =>
     /\ raised = "none" /\ ret # NoData
     /\ ret.content = EmptyContent /\ ret.extracted_data = NoData
C10_Witness ==
  /\ crawlReturn.state = "returned" /\ ~crawlReturn.value.isNone /\ Len(crawlReturn.value.list) = 0
  /\ pc = "done" /\ ret = fallback_response(url)

\* C11: the result the static backend returns after a fetch exception or an
\* empty result list carries an explanatory note: its metadata has an error
\* or a note field.
C11_StaticFallbackCarriesNote ==
  (CrawlFailedOrEmpty /\ Returned /\ ret # NoData) =>
     \/ "error" \in DOMAIN ret.metadata
     \/ "note" \in DOMAIN ret.metadata

\* C12: check_robots_txt fails open and never raises for a failure of fetching
\* or parsing robots.txt: when read or can_fetch raises, it returns
\* allowed=true together with an error field holding the exception's message.
C12_RobotsFailOpen ==
  (robots.outcome # "none" /\ robots.outcome # "skipped" /\ robots.env \in RobotsFailures) =>
     /\ robots.outcome = "returned"
     /\ robots.result.allowed
     /\ "error" \in DOMAIN robots.result
     /\ robots.result.error = (IF robots.env = "read_raises" THEN "<urlopen error unreachable>"
                               ELSE "can_fetch failed")
C12_Witness ==
  /\ entry = "robots" /\ pc = "done" /\ robots.env = "read_raises"
  /\ robots.result.allowed /\ robots.result.error = "<urlopen error unreachable>"

\* the robots.txt location of each url of the model, written out
R_AIO == <<"h","t","t","p",":","/","/","a",".","i","o","/","r","o","b","o","t","s",".","t","x","t">>
R_AIO_PORT == <<"h","t","t","p","s",":","/","/","a",".","i","o",":","8","/","r","o","b","o","t","s",".","t","x","t">>
R_HTTPBIN == <<"h","t","t","p",":","/","/","h","t","t","p","b","i","n",".","o","r","g","/","r","o","b","o","t","s",".","t","x","t">>
SiteRobots(u) == IF u = U_PORT THEN R_AIO_PORT ELSE IF u = U_HTTPBIN THEN R_HTTPBIN ELSE R_AIO

\* C13: when robots.txt is fetched and parsed without error, check_robots_txt
\* returns allowed equal to the parser's can_fetch answer (true or false), url
\* equal to the input url, robots_url equal to '<scheme>://<host>/robots.txt'
\* of the input url (the host as the url names it, with its port), and no
\* error field.
C13_RobotsDecision ==
  (robots.outcome = "returned" /\ robots.env \in {"allowed", "disallowed"}) =>
     /\ robots.result.allowed = (robots.env = "allowed")
     /\ robots.result.url = robots.args.url
     /\ robots.result.user_agent = robots.args.user_agent
     /\ robots.result.robots_url = SiteRobots(robots.args.url)
     /\ "error" \notin DOMAIN robots.result
C13_Witness ==
  /\ entry = "robots" /\ pc = "done" /\ robots.env = "disallowed"
  /\ robots.args.url = U_PORT /\ ~robots.result.allowed
  /\ robots.result.robots_url = R_AIO_PORT

\* C14: with check_robots_txt enabled, a robots check that raises instead of
\* returning a decision does not block the request: the extraction backend is
\* still dispatched afterwards and its result is returned.
C14_RobotsErrorDoesNotBlock ==
  (entry = "api" /\ robots.outcome = "raised") =>
     /\ status # 403
     /\ pc = "done" => /\ calls.extract_content = 1
                       /\ ret # NoData => (status = 200 /\ http_response = ret)
C14_Witness ==
  /\ entry = "api" /\ robots.outcome = "raised" /\ pc = "done"
  /\ calls.crawl = 1 /\ status = 200 /\ http_response = ret
  /\ http_response.content.markdown = MD_FIT

\* the Playwright backend ran its extraction stage on a page none of whose
\* calls raises, with a non-empty base_selector, and returned its result
SelectorExtraction ==
  /\ calls.extract_content_playwright >= 1 /\ Returned
  /\ browser /\ pending = "none" /\ failures = {}
  /\ selectors.kind = "dict" /\ Truthy(Get(selectors, "base_selector", PyNone))
MatchedElement == query_selector(page, Get(selectors, "base_selector", PyNone))

\* C15: in the Dynamic backend, when base_selector matches no element of the
\* page, the result's content.html is the full-page HTML, extracted_data is
\* null and no exception is raised, for every url and every selector.
C15_SelectorMissGivesFullPage ==
  (SelectorExtraction /\ ~MatchedElement.found) =>
     /\ raised = "none" /\ pwRet # NoData
     /\ pwRet.content.html = page.html
     /\ pwRet.extracted_data = NoData

\* C16: in the Dynamic backend, when base_selector matches an element, the
\* result captures that element: content.html is the element's inner HTML and
\* extracted_data.content is the element's text content, for every url.
C16_SelectorMatchCapturesElement ==
  (SelectorExtraction /\ MatchedElement.found) =>
     /\ raised = "none" /\ pwRet # NoData
     /\ pwRet.content.html = MatchedElement.inner_html
     /\ Truthy(MatchedElement.textContent) =>
          /\ pwRet.extracted_data # NoData
          /\ pwRet.extracted_data.content = MatchedElement.textContent

\* C17: every result the Dynamic backend returns has extracted_data either
\* null or a record whose content field is non-empty text; the degraded
\* fallback result has extracted_data null.
C17_ExtractedDataNullOrNonEmpty ==
  pwRet # NoData =>
     /\ pwRet.extracted_data = NoData \/ Truthy(pwRet.extracted_data.content)
     /\ Unabsorbed => pwRet.extracted_data = NoData

\* C18: an /extract request on the static path (use_browser false, empty
\* selectors, check_robots_txt false) whose target domain does not exist, so
\* that the fetch fails, is answered with HTTP status 500.
C18_InvalidDomainIs500 ==
  (/\ entry = "api" /\ pc = "done"
   /\ ~request.use_browser /\ ~request.check_robots_txt
   /\ Get(request.selectors, "base_selector", PyNone) = PyNone
   /\ crawlReturn.state = "raised") =>
     status = 500

\* C19: an exception that escapes extract_content, or a missing result, is
\* turned by api_extract_content into a status-500 error whose detail is
\* exactly that exception's message; such a request never yields a 200 nor any
\* status other than 500.
C19_EscapedExceptionIs500 ==
  (/\ entry = "api" /\ pc = "done" /\ calls.extract_content = 1
   /\ (raised # "none" \/ api_result = NoData)) =>
     /\ status = 500
     /\ detail = <<IF raised # "none" THEN raised ELSE "No result returned from extract_content">>

\* C20: every successful (200) response of /extract has content with exactly
\* the three string fields html, markdown and raw_markdown, whatever shape the
\* backend returned: a field the backend left out is filled with the empty
\* string and a missing extracted_data with null.
C20_ResponseHasThreeStrings ==
  (entry = "api" /\ status = 200) =>
     /\ http_response # NoData
     /\ DOMAIN http_response.content = {"html", "markdown", "raw_markdown"}
     /\ \A k \in DOMAIN http_response.content : http_response.content[k] # PyNone
     /\ "extracted_data" \in DOMAIN http_response

\* the record_access call that returned the limiter the last can_proceed asked
ProbedAccess == CHOOSE k \in 1..Len(accesses) : accesses[k].new = probe.limiter
ProbedRecorded == probe.limiter # 0 /\ \E k \in 1..Len(accesses) : accesses[k].new = probe.limiter

\* C21: for a RateLimiter with interval > 0, can_proceed on the limiter
\* returned by record_access is false while the time elapsed since that
\* record_access is less than interval, and true as soon as it is at least
\* interval.
C21_CanProceedAfterInterval ==
  ProbedRecorded =>
     LET elapsed == probe.at - accesses[ProbedAccess].at
         interval == accesses[ProbedAccess].before.interval IN
     /\ interval.n > 0 /\ interval.d > 0
     /\ probe.answer = (elapsed * interval.d >= interval.n)
C21_Witness ==
  /\ ProbedRecorded /\ probe.answer
  /\ accesses[ProbedAccess].before.interval = [n |-> 2, d |-> 1]
  /\ probe.at - accesses[ProbedAccess].at = 2

\* C22: record_access returns a new limiter whose domain and interval equal
\* the original's and whose last_access_time is the current time, and leaves
\* the original's domain, interval and last_access_time unchanged, after any
\* number of record_access calls in sequence.
C22_RecordAccessReturnsNew ==
  \A k \in 1..Len(accesses) :
     LET a == accesses[k] IN
     /\ limiters[a.new].domain = a.before.domain
     /\ limiters[a.new].interval = a.before.interval
     /\ limiters[a.new].last_access_time = a.at
     /\ limiters[a.orig] = a.before
C22_Witness ==
  /\ Len(accesses) = 2 /\ accesses[2].orig = accesses[1].new
  /\ limiters[1].last_access_time = 0
  /\ limiters[2].last_access_time = NOW0 /\ limiters[3].last_access_time = NOW0 + 1
  /\ limiters[3].interval = [n |-> 3, d |-> 2]

\* C23: within one extraction request every external operation is attempted
\* at most once: browser launch, page navigation, the static crawl and the
\* robots.txt fetch are never re-invoked after they fail.
C23_SingleAttempt ==
  /\ \A op \in {"robots", "async_playwright", "launch", "new_context", "new_page", "goto",
                "crawler_new", "crawl", "browser_close", "crawler_close"} : calls[op] <= 1
  /\ calls.wait = waitIdx - 1 /\ calls.script = scriptIdx - 1
  /\ calls.launch + calls.crawl <= 1
C23_Witness ==
  /\ entry = "api" /\ pc = "done" /\ robots.outcome = "returned" /\ robots.env = "read_raises"
  /\ "crawl" \in failures /\ calls.crawl = 1 /\ calls.robots = 1 /\ status = 200

\* the request was served by the static part of extract_content and a result
\* came back
StaticResult ==
  /\ ThroughExtractContent /\ calls.extract_content_playwright = 0
  /\ Returned /\ ret # NoData
SchemaSupplied == Get(given.options, "extraction_schema", NoData) # NoData

\* C26: for results returned by the static backend, extraction_strategy is
\* 'schema' exactly when a schema was supplied in the options, and 'markdown'
\* otherwise.
C26_SchemaLabelFollowsOptions ==
  StaticResult =>
     ret.metadata.extraction_strategy = IF SchemaSupplied THEN "schema" ELSE "markdown"

\* the page work of extract_content_playwright got as far as the navigation
\* and both lists of the options are lists
Navigated == calls.goto = 1 /\ wait_selectors # NoneList /\ js_scripts # NoneList

C28_ContentLengthIsHtmlLength ==
  pwRet # NoData => pwRet.metadata.content_length = Len(pwRet.content.html)

\* C29: extract_content does not modify the options and selectors mappings
\* its caller passed: after the call the caller's options hold what they held
\* before (use_browser included), so a later call with the same mapping is
\* routed the same way.
C29_CallerOptionsUntouched ==
  (ThroughExtractContent /\ Returned) =>
     /\ callerOptions = given.options
     /\ use_browser(OrEmptyDict(callerOptions)) = use_browser(OrEmptyDict(given.options))

\* the result is one of the two fallbacks of create_fallback_response
IsFallback(r) == {"note", "error"} \cap DOMAIN r.metadata # {}

\* C30: a Dynamic request whose wait_selectors and js_scripts are null, as the
\* dump of an /extract request without them produces, is handled as a request
\* with no waits and no scripts: when the launch and the navigation succeed it
\* reaches the extraction and returns the page content, not the fallback.
C30_NullListsAreEmpty ==
  ( /\ entry = "api" /\ request # NoRequest /\ request.use_browser
    /\ request.wait_selectors = NoneList /\ request.js_scripts = NoneList
    /\ calls.goto = 1 /\ failures = {} /\ Returned ) =>
     /\ calls.extract = 1
     /\ pwRet # NoData /\ ~IsFallback(pwRet)

\* both calls have returned and every external call answered well
BothDone == \A i \in Tasks : tasks[i].pc = "done"
AllWell(t) == t.env.crawlerOk /\ t.env.crawl.state = "returned" /\ t.env.launchOk
\* the second call was made after the first returned, with the same selectors
\* and with the same options: the same dict object, or equal values
Repeated ==
  /\ BothDone /\ tasks[2].after
  /\ tasks[1].sels = tasks[2].sels /\ tasks[1].env = tasks[2].env
  /\ tasks[1].ref = tasks[2].ref \/ tasks[1].given = tasks[2].given

\* C24: two sequential extract_content calls for the same static page with
\* identical selectors and options, the page unchanged in between, return the
\* same content.markdown; this covers the very same options mapping being
\* passed to both calls.
C24_RepeatGivesSameMarkdown ==
  (Repeated /\ AllWell(tasks[1])) =>
     tasks[1].ret.content.markdown = tasks[2].ret.content.markdown

\* each call was given an options mapping of its own (or none)
OwnMappings == tasks[1].ref = 0 \/ tasks[1].ref # tasks[2].ref

====
